---- MODULE Spec2Model ----
(***************************************************************************)
(* Model of object-size-detector-go (src/main.go): the capture/display     *)
(* loop of main, the frameRunner goroutine with its Part/Result defect     *)
(* tracker, the messageRunner goroutine, and the channels between them.    *)
(*                                                                         *)
(* An image is abstracted to the bounding rectangle that detectBlob finds  *)
(* in it (the image processing itself is an external library).             *)
(***************************************************************************)
EXTENDS Integers, Sequences, FiniteSets, TLC

VARIABLES
    min,          \* flag -min
    max,          \* flag -max
    publish,      \* flag -publish; pubChan is non-nil iff publish
    film,         \* flag -input: the frames of the video file (<<>> for a camera)
    vpos,         \* number of non-empty images vc.Read has delivered so far
    mpc,          \* main: position in its code
    img,          \* main: content of the image matrix img (shared with queued frames)
    mresult,      \* main: which Result object its result pointer refers to
    framesChan,   \* chan *frame, capacity 1
    doneChan,     \* chan struct{}, unbuffered, only ever closed
    resultsChan,  \* chan *Result, capacity 1
    pubChan,      \* chan *Result, capacity 1 (nil when ~publish)
    errChan,      \* chan error, capacity 2
    fpc,          \* frameRunner: position in its code
    part,         \* frameRunner: *Part (now, prev, defectFrames, okFrames)
    result,       \* frameRunner: the one Result object it allocates and sends
    ppc,          \* messageRunner: position in its code
    tickerC,      \* messageRunner: number of ticks pending in ticker.C (0 or 1)
    hist          \* history of the run (frames processed, sends made)

cfgVars  == <<min, max, publish, film>>
mainVars == <<vpos, mpc, img, mresult>>
chanVars == <<framesChan, doneChan, resultsChan, pubChan, errChan>>
frVars   == <<fpc, part, result>>
mrVars   == <<ppc, tickerC>>
vars     == <<min, max, publish, film, vpos, mpc, img, mresult, framesChan, doneChan,
              resultsChan, pubChan, errChan, fpc, part, result, ppc, tickerC, hist>>

----------------------------------------------------------------------------
(* Bounds of the model *)

\* frames the camera delivers before the capture fails
MaxFrames == 15

\* length of the longest of the short video files
MaxPipeFrames == 4

----------------------------------------------------------------------------
(* Program constants *)

\* default of flag -min
DefaultMin == 20000
\* default of flag -max
DefaultMax == 30000

\* capacities of the channels main makes
FramesCap  == 1
ResultsCap == 1
PubCap     == 1
\* errChan made with the capacity of the other channels
ErrCapAsPubCap == PubCap
ErrCap     == 2

----------------------------------------------------------------------------
(* Data *)

Rect(w, h) == [X |-> w, Y |-> h]

\* the zero image.Rectangle: what detectBlob returns when it finds no part
ZeroRect == Rect(0, 0)

\* images by what they show: an empty belt, a part in range (area 22500), a part
\* that is too large (area 50000)
BeltEmpty  == ZeroRect
PartOk     == Rect(150, 150)
PartDefect == Rect(250, 200)

\* images a camera frame may hold
CameraRects == {BeltEmpty, PartOk, PartDefect}

\* n images r in a row
Rep(r, n) == [i \in 1..n |-> r]

\* video files: the scenarios of the specification and mixes of good and bad frames
FilmAllOk        == Rep(PartOk, 15)
FilmAllDefect    == Rep(PartDefect, 17)
FilmTwoDefective == Rep(PartDefect, 12) \o <<BeltEmpty>> \o Rep(PartDefect, 12)
FilmFlicker      == Rep(PartDefect, 10) \o <<PartOk, PartDefect, PartOk, PartDefect>>
FilmOkThenDefect == Rep(PartOk, 12) \o Rep(PartDefect, 3) \o <<BeltEmpty, BeltEmpty, PartOk>>
FilmShort        == <<PartDefect, PartOk, BeltEmpty, PartOk, PartOk, BeltEmpty, PartDefect>>

Films == {FilmAllOk, FilmAllDefect, FilmTwoDefective, FilmFlicker, FilmOkThenDefect,
          FilmShort}

\* the i-th image of the short video files: a defective part, a good part, an empty belt
PipeImage(i) == CASE i % 3 = 1 -> PartDefect
                  [] i % 3 = 2 -> PartOk
                  [] OTHER     -> BeltEmpty

\* the short video files: every prefix of the same sequence of images
PipeFilms == {[i \in 1..n |-> PipeImage(i)] : n \in 0..MaxPipeFrames}

\* widths and heights of the rectangles detectStatus is applied to on its own
ClassifyDims == {-100, 0, 100, 150, 200}

\* values of the flags -min and -max detectStatus is applied with on its own
ClassifyAreas == {0, 20000, 30000, 40000}

\* new(Status)
NewStatus == [Seen |-> FALSE, Defect |-> FALSE]

\* new(Part), with now and prev set to new(Status)
NewPart == [now |-> NewStatus, prev |-> NewStatus, defectFrames |-> 0, okFrames |-> 0]

\* new(Result)
NewResult == [Defect |-> FALSE, Rect |-> ZeroRect, TotalParts |-> 0, TotalDefects |-> 0]

\* make(chan T, n); closes counts the calls of close on the channel
MakeChan == [buf |-> <<>>, closed |-> FALSE, closes |-> 0]

\* ch <- v
ChanSend(ch, v) == [ch EXCEPT !.buf = Append(@, v)]

\* the channel after <-ch took its first buffered value
ChanRecv(ch) == [ch EXCEPT !.buf = Tail(@)]

\* close(ch)
ChanClose(ch) == [ch EXCEPT !.closed = TRUE, !.closes = @ + 1]

----------------------------------------------------------------------------
(* detectBlob and detectStatus *)

\* the part found in an image: the model's image is that rectangle
detectBlob(image) == image

\* the upper threshold taken as exclusive
detectStatusMaxExclusive(blob) ==
    LET area == blob.X * blob.Y
    IN  IF area # 0
        THEN IF area >= max \/ area < min
             THEN [Seen |-> TRUE, Defect |-> TRUE]
             ELSE [Seen |-> TRUE, Defect |-> FALSE]
        ELSE [Seen |-> FALSE, Defect |-> FALSE]

\* detectStatus: the status of the part whose bounding rectangle is blob
detectStatus(blob) ==
    LET area == blob.X * blob.Y
    IN  IF area # 0
        THEN IF area > max \/ area < min
             THEN [Seen |-> TRUE, Defect |-> TRUE]
             ELSE [Seen |-> TRUE, Defect |-> FALSE]
        ELSE [Seen |-> FALSE, Defect |-> FALSE]

----------------------------------------------------------------------------
(* The defect tracker inside frameRunner's frame case *)

\* the else lost: a defect frame counts as an ok frame too
IncrementCountersBoth(p) ==
    IF p.now.Defect
    THEN [p EXCEPT !.defectFrames = @ + 1, !.okFrames = @ + 1]
    ELSE [p EXCEPT !.okFrames = @ + 1]

\* if part.now.Defect { part.defectFrames++ } else { part.okFrames++ }
IncrementCounters(p) ==
    IF p.now.Defect
    THEN [p EXCEPT !.defectFrames = @ + 1]
    ELSE [p EXCEPT !.okFrames = @ + 1]

\* the threshold of the reset taken as 10 or more
ResetDefectFramesAtTen(p) ==
    IF ~p.now.Defect /\ p.okFrames >= 10
    THEN [p EXCEPT !.defectFrames = 0]
    ELSE p

\* if !part.now.Defect && part.okFrames > 10 { part.defectFrames = 0 }
ResetDefectFrames(p) ==
    IF ~p.now.Defect /\ p.okFrames > 10
    THEN [p EXCEPT !.defectFrames = 0]
    ELSE p

\* a copy-paste slip: the condition of the okFrames branch used for the defect branch
DefectDetectedOkCond(p) == ~p.now.Defect /\ p.okFrames > 10

\* part.now.Defect && part.defectFrames > 10
DefectDetected(p) == p.now.Defect /\ p.defectFrames > 10

\* the test of the previous status lost: every detection is counted
MarkDefectAlways(p, r) == [r EXCEPT !.Defect = TRUE, !.TotalDefects = @ + 1]

\* the flag assigned from the test instead of set: result.Defect = !part.prev.Defect
MarkDefectAssigns(p, r) ==
    [r EXCEPT !.Defect = ~p.prev.Defect,
              !.TotalDefects = IF ~p.prev.Defect THEN @ + 1 ELSE @]

\* if !part.prev.Defect { result.Defect = true; result.TotalDefects++ }
MarkDefect(p, r) ==
    IF ~p.prev.Defect
    THEN [r EXCEPT !.Defect = TRUE, !.TotalDefects = @ + 1]
    ELSE r

\* the reset forgets one of the two counters
EmptyBeltKeepDefectFrames(p) == [p EXCEPT !.okFrames = 0]

\* part.okFrames = 0; part.defectFrames = 0
EmptyBelt(p) == [p EXCEPT !.okFrames = 0, !.defectFrames = 0]

\* the branch taken as if every seen frame continued a part
ContinuesPartAlways(p) == TRUE

\* if part.prev.Seen
ContinuesPart(p) == p.prev.Seen

\* the body of the frame case from detectStatus to the reset of the counters:
\* the Part and the Result after a frame whose blob is rect
Track(p0, r0, rect) ==
    LET r1 == [r0 EXCEPT !.Rect = rect]
        p1 == [p0 EXCEPT !.now = detectStatus(rect)]
    IN  IF p1.now.Seen
        THEN LET p2 == IncrementCounters(p1)
             IN  IF ContinuesPart(p2)
                 THEN LET p3 == ResetDefectFrames(p2)
                      IN  IF DefectDetected(p3)
                          THEN [part   |-> [p3 EXCEPT !.okFrames = 0],
                                result |-> MarkDefect(p3, r1)]
                          ELSE [part |-> p3, result |-> r1]
                 ELSE [part   |-> p2,
                       result |-> [r1 EXCEPT !.TotalParts = @ + 1]]
        ELSE [part |-> EmptyBelt(p1), result |-> r1]

\* the check of pubChan against nil is lost: the Result is never handed to the publisher
PubChanNotNilNever == FALSE

\* pubChan != nil: main makes pubChan only when publish is set
PubChanNotNil == publish

\* part.prev = part.now
AdvancePrev(p) == [p EXCEPT !.prev = p.now]

----------------------------------------------------------------------------
(* History variables: what the frames processed so far were *)

NewHist ==
    [nframes      |-> 0,      \* non-nil frames frameRunner has processed
     runLen       |-> 0,      \* length of the current run of seen frames
     consecDefect |-> 0,      \* length of the current run of seen, defect frames
     runHasDefect |-> FALSE,  \* the current run of seen frames holds a defect frame
     runIncs      |-> 0,      \* increments of TotalDefects in the current run
     runs         |-> 0,      \* runs of seen frames started so far
     inOrder      |-> TRUE,   \* the k-th frame processed held the k-th image of the file
     sentRes      |-> 0,      \* sends made on resultsChan
     sentPub      |-> 0,      \* sends made on pubChan
     gotNil       |-> FALSE,  \* frameRunner has received a nil frame
     sentSinceTick |-> FALSE, \* a send on pubChan was made after the last tick was taken
     ticked       |-> FALSE,  \* messageRunner has taken a tick
     lateTick     |-> FALSE,  \* the last tick was taken with doneChan already closed
     tickPubs     |-> 0,      \* Publish calls made since the last tick was taken
     lastPublish  |-> "none", \* how the last Publish call ended: ok, error or timeout
     lastErr      |-> "nil"]  \* the error the last Publish call returned

HistAfterFrame(h, st, incs) ==
    [h EXCEPT !.nframes      = @ + 1,
              !.inOrder      = @ /\ (film = <<>> \/ vpos = h.nframes + 1),
              !.runLen       = IF st.Seen THEN @ + 1 ELSE 0,
              !.consecDefect = IF st.Seen /\ st.Defect THEN @ + 1 ELSE 0,
              !.runHasDefect = st.Seen /\ (st.Defect \/ (h.runLen > 0 /\ @)),
              !.runIncs      = IF st.Seen
                               THEN (IF h.runLen = 0 THEN 0 ELSE @) + incs
                               ELSE 0,
              !.runs         = IF st.Seen /\ h.runLen = 0 THEN @ + 1 ELSE @]

----------------------------------------------------------------------------
(* The process runs until a goroutine panics or main returns *)

Running == ppc # "panic" /\ mpc # "exit"

----------------------------------------------------------------------------
(* frameRunner *)

\* the stop case without its return: the loop goes on after the channels are closed
FRStopNoReturn ==
    /\ Running
    /\ fpc = "select"
    /\ doneChan.closed
    /\ resultsChan' = ChanClose(resultsChan)
    /\ pubChan' = IF PubChanNotNil THEN ChanClose(pubChan) ELSE pubChan
    /\ fpc' = "select"
    /\ UNCHANGED <<cfgVars, mainVars, framesChan, doneChan, errChan, part, result,
                   mrVars, hist>>

\* case <-doneChan: close(resultsChan); if pubChan != nil { close(pubChan) }; return nil
FRStop ==
    /\ Running
    /\ fpc = "select"
    /\ doneChan.closed
    /\ resultsChan' = ChanClose(resultsChan)
    /\ pubChan' = IF PubChanNotNil THEN ChanClose(pubChan) ELSE pubChan
    /\ fpc' = "returned"
    /\ UNCHANGED <<cfgVars, mainVars, framesChan, doneChan, errChan, part, result,
                   mrVars, hist>>

\* case frame = <-framesChan, with a frame in the buffer
FRRecvFrame ==
    /\ Running
    /\ fpc = "select"
    /\ Len(framesChan.buf) > 0
    /\ framesChan' = ChanRecv(framesChan)
    /\ fpc' = "copy"
    /\ UNCHANGED <<cfgVars, mainVars, doneChan, resultsChan, pubChan, errChan, part,
                   result, mrVars, hist>>

\* the check of frame against nil lost: the nil frame goes on to the copy
FRRecvNilNoCheck ==
    /\ Running
    /\ fpc = "select"
    /\ Len(framesChan.buf) = 0
    /\ framesChan.closed
    /\ hist' = [hist EXCEPT !.gotNil = TRUE]
    /\ fpc' = "copy"
    /\ UNCHANGED <<cfgVars, mainVars, chanVars, part, result, mrVars>>

\* case frame = <-framesChan on the closed, empty channel: frame == nil, continue
FRRecvNil ==
    /\ Running
    /\ fpc = "select"
    /\ Len(framesChan.buf) = 0
    /\ framesChan.closed
    /\ hist' = [hist EXCEPT !.gotNil = TRUE]
    /\ UNCHANGED <<cfgVars, mainVars, chanVars, frVars, mrVars>>

\* frame.img.CopyTo(&img) reads the matrix main owns; then detectBlob, detectStatus
\* and the counters, up to the send on resultsChan
FRProcess ==
    /\ Running
    /\ fpc = "copy"
    /\ LET t == Track(part, result, detectBlob(img))
       IN  /\ part' = t.part
           /\ result' = t.result
           /\ hist' = HistAfterFrame(hist, t.part.now,
                                     t.result.TotalDefects - result.TotalDefects)
    /\ fpc' = "sendResults"
    /\ UNCHANGED <<cfgVars, mainVars, chanVars, mrVars>>

\* resultsChan <- result; without a pubChan the iteration ends with part.prev = part.now
FRSendResults ==
    /\ Running
    /\ fpc = "sendResults"
    /\ Len(resultsChan.buf) < ResultsCap
    /\ resultsChan' = ChanSend(resultsChan, hist.nframes)
    /\ hist' = [hist EXCEPT !.sentRes = @ + 1]
    /\ IF PubChanNotNil
       THEN fpc' = "sendPub" /\ part' = part
       ELSE fpc' = "select" /\ part' = AdvancePrev(part)
    /\ UNCHANGED <<cfgVars, mainVars, framesChan, doneChan, pubChan, errChan, result,
                   mrVars>>

\* pubChan <- result; part.prev = part.now
FRSendPub ==
    /\ Running
    /\ fpc = "sendPub"
    /\ Len(pubChan.buf) < PubCap
    /\ pubChan' = ChanSend(pubChan, hist.nframes)
    /\ hist' = [hist EXCEPT !.sentPub = @ + 1, !.sentSinceTick = TRUE]
    /\ part' = AdvancePrev(part)
    /\ fpc' = "select"
    /\ UNCHANGED <<cfgVars, mainVars, framesChan, doneChan, resultsChan, errChan,
                   result, mrVars>>

\* the goroutine main starts: errChan <- frameRunner(...); wg.Done()
FRExit ==
    /\ Running
    /\ fpc = "returned"
    /\ Len(errChan.buf) < ErrCap
    /\ errChan' = ChanSend(errChan, "nil")
    /\ fpc' = "exited"
    /\ UNCHANGED <<cfgVars, mainVars, framesChan, doneChan, resultsChan, pubChan,
                   part, result, mrVars, hist>>

----------------------------------------------------------------------------
(* main *)

\* vc.Read(&img) from a camera, and the resize: the next image is any image
MainReadCamera ==
    /\ Running
    /\ mpc = "read"
    /\ film = <<>>
    /\ vpos < MaxFrames
    /\ \E r \in CameraRects : img' = r
    /\ vpos' = vpos + 1
    /\ mpc' = "send"
    /\ UNCHANGED <<cfgVars, mresult, chanVars, frVars, mrVars, hist>>

\* vc.Read(&img) delivers an empty matrix: img.Empty(), continue
MainReadEmpty ==
    /\ Running
    /\ mpc = "read"
    /\ film = <<>>
    /\ img' = ZeroRect
    /\ UNCHANGED <<cfgVars, vpos, mpc, mresult, chanVars, frVars, mrVars, hist>>

\* vc.Read(&img) from the video file, and the resize: the next image of the file
MainReadFile ==
    /\ Running
    /\ mpc = "read"
    /\ vpos < Len(film)
    /\ img' = film[vpos + 1]
    /\ vpos' = vpos + 1
    /\ mpc' = "send"
    /\ UNCHANGED <<cfgVars, mresult, chanVars, frVars, mrVars, hist>>

\* vc.Read(&img) returns false (the camera fails, the file ends): break
MainReadFail ==
    /\ Running
    /\ mpc = "read"
    /\ film = <<>> \/ vpos >= Len(film)
    /\ mpc' = "closeFrames"
    /\ UNCHANGED <<cfgVars, vpos, img, mresult, chanVars, frVars, mrVars, hist>>

\* the frames channel taken as unbounded: the send never waits
MainSendNoWait ==
    /\ Running
    /\ mpc = "send"
    /\ framesChan' = ChanSend(framesChan, "img")
    /\ mpc' = "select"
    /\ UNCHANGED <<cfgVars, vpos, img, mresult, doneChan, resultsChan, pubChan,
                   errChan, frVars, mrVars, hist>>

\* framesChan <- &frame{img: &img}: the frame points at main's matrix
MainSend ==
    /\ Running
    /\ mpc = "send"
    /\ Len(framesChan.buf) < FramesCap
    /\ framesChan' = ChanSend(framesChan, "img")
    /\ mpc' = "select"
    /\ UNCHANGED <<cfgVars, vpos, img, mresult, doneChan, resultsChan, pubChan,
                   errChan, frVars, mrVars, hist>>

\* the select without its case result = <-resultsChan: main never takes a Result
MainSelectReadyNoResult ==
    {"sig"}
    \cup (IF Len(errChan.buf) > 0 THEN {"err"} ELSE {})
    \cup (IF Len(errChan.buf) = 0 THEN {"default"} ELSE {})

\* the select without its default case
MainSelectReadyNoDefault ==
    {"sig"}
    \cup (IF Len(errChan.buf) > 0 THEN {"err"} ELSE {})
    \cup (IF Len(resultsChan.buf) > 0 \/ resultsChan.closed THEN {"result"} ELSE {})

\* the cases of main's select that can be taken: a signal may have arrived at any
\* time; default is taken only when no channel is ready
MainSelectReady ==
    {"sig"}
    \cup (IF Len(errChan.buf) > 0 THEN {"err"} ELSE {})
    \cup (IF Len(resultsChan.buf) > 0 \/ resultsChan.closed THEN {"result"} ELSE {})
    \cup (IF Len(errChan.buf) = 0 /\ Len(resultsChan.buf) = 0 /\ ~resultsChan.closed
          THEN {"default"} ELSE {})

\* the select, the display of result and window.WaitKey (ESC leaves the loop)
MainSelect ==
    /\ Running
    /\ mpc = "select"
    /\ \E c \in MainSelectReady, esc \in BOOLEAN :
          /\ mpc' = IF c \in {"sig", "err"} \/ esc THEN "closeFrames" ELSE "read"
          /\ resultsChan' = IF c = "result" /\ Len(resultsChan.buf) > 0
                            THEN ChanRecv(resultsChan) ELSE resultsChan
          /\ errChan' = IF c = "err" THEN ChanRecv(errChan) ELSE errChan
          /\ mresult' = IF c = "result" THEN "shared" ELSE mresult
    /\ UNCHANGED <<cfgVars, vpos, img, framesChan, doneChan, pubChan, frVars, mrVars,
                   hist>>

\* close(framesChan)
MainCloseFrames ==
    /\ Running
    /\ mpc = "closeFrames"
    /\ framesChan' = ChanClose(framesChan)
    /\ mpc' = "closeDone"
    /\ UNCHANGED <<cfgVars, vpos, img, mresult, doneChan, resultsChan, pubChan,
                   errChan, frVars, mrVars, hist>>

\* close(doneChan)
MainCloseDone ==
    /\ Running
    /\ mpc = "closeDone"
    /\ doneChan' = ChanClose(doneChan)
    /\ mpc' = "drain"
    /\ UNCHANGED <<cfgVars, vpos, img, mresult, framesChan, resultsChan, pubChan,
                   errChan, frVars, mrVars, hist>>

\* for range resultsChan {}: one more outstanding result
MainDrain ==
    /\ Running
    /\ mpc = "drain"
    /\ Len(resultsChan.buf) > 0
    /\ resultsChan' = ChanRecv(resultsChan)
    /\ UNCHANGED <<cfgVars, mainVars, framesChan, doneChan, pubChan, errChan, frVars,
                   mrVars, hist>>

\* for range resultsChan {}: the channel is closed and empty
MainDrained ==
    /\ Running
    /\ mpc = "drain"
    /\ Len(resultsChan.buf) = 0
    /\ resultsChan.closed
    /\ mpc' = "wait"
    /\ UNCHANGED <<cfgVars, vpos, img, mresult, chanVars, frVars, mrVars, hist>>

\* main returning without the wg.Wait()
MainWaitNoWait ==
    /\ Running
    /\ mpc = "wait"
    /\ mpc' = "exit"
    /\ UNCHANGED <<cfgVars, vpos, img, mresult, chanVars, frVars, mrVars, hist>>

\* wg.Wait() returns once every started goroutine has called wg.Done()
MainWait ==
    /\ Running
    /\ mpc = "wait"
    /\ fpc = "exited"
    /\ publish => ppc = "exited"
    /\ mpc' = "exit"
    /\ UNCHANGED <<cfgVars, vpos, img, mresult, chanVars, frVars, mrVars, hist>>

----------------------------------------------------------------------------
(* messageRunner *)

\* the ticker delivers a tick; ticker.C holds one tick, a further one is dropped
Tick ==
    /\ Running
    /\ publish
    /\ tickerC = 0
    /\ tickerC' = 1
    /\ UNCHANGED <<cfgVars, mainVars, chanVars, frVars, ppc, hist>>

\* case <-ticker.C
MRTick ==
    /\ Running
    /\ ppc = "select"
    /\ tickerC = 1
    /\ tickerC' = 0
    /\ ppc' = "tickRecv"
    /\ hist' = [hist EXCEPT !.ticked = TRUE, !.tickPubs = 0, !.sentSinceTick = FALSE,
                             !.lateTick = doneChan.closed]
    /\ UNCHANGED <<cfgVars, mainVars, chanVars, frVars>>

\* result := <-pubChan in the tick case, with a Result in the buffer
MRTickRecv ==
    /\ Running
    /\ ppc = "tickRecv"
    /\ Len(pubChan.buf) > 0
    /\ pubChan' = ChanRecv(pubChan)
    /\ ppc' = "publish"
    /\ UNCHANGED <<cfgVars, mainVars, framesChan, doneChan, resultsChan, errChan,
                   frVars, tickerC, hist>>

\* result := <-pubChan in the tick case on the closed, empty channel: result is nil
\* and result.ToMQTTMessage() dereferences it
MRTickRecvNil ==
    /\ Running
    /\ ppc = "tickRecv"
    /\ Len(pubChan.buf) = 0
    /\ pubChan.closed
    /\ ppc' = "panic"
    /\ UNCHANGED <<cfgVars, mainVars, chanVars, frVars, tickerC, hist>>

\* how a publish attempt can end at the broker: acknowledged, refused with an error,
\* or not finished within TIMEOUT
PublishOutcomes == {"ok", "error", "timeout"}

\* MQTTClient.Publish: if ok := token.WaitTimeout(TIMEOUT); ok && token.Error() != nil
\* returns the error; otherwise it returns (token, nil)
Publish(outcome) == IF outcome = "error" THEN "error" ELSE "nil"

\* the TODO of the error branch taken the other way: return the error and stop
MRPublishReturnsError ==
    /\ Running
    /\ ppc = "publish"
    /\ \E outcome \in PublishOutcomes :
          /\ ppc' = IF Publish(outcome) # "nil" THEN "returned" ELSE "select"
          /\ hist' = [hist EXCEPT !.tickPubs = @ + 1, !.lastPublish = outcome,
                                   !.lastErr = Publish(outcome)]
    /\ UNCHANGED <<cfgVars, mainVars, chanVars, frVars, tickerC>>

\* c.Publish(topic, result.ToMQTTMessage()); an error is printed and the loop goes on
MRPublish ==
    /\ Running
    /\ ppc = "publish"
    /\ \E outcome \in PublishOutcomes :
          hist' = [hist EXCEPT !.tickPubs = @ + 1, !.lastPublish = outcome,
                               !.lastErr = Publish(outcome)]
    /\ ppc' = "select"
    /\ UNCHANGED <<cfgVars, mainVars, chanVars, frVars, tickerC>>

\* case <-pubChan: the Result is discarded
MRDiscard ==
    /\ Running
    /\ ppc = "select"
    /\ Len(pubChan.buf) > 0
    /\ pubChan' = ChanRecv(pubChan)
    /\ UNCHANGED <<cfgVars, mainVars, framesChan, doneChan, resultsChan, errChan,
                   frVars, mrVars, hist>>

\* case <-pubChan on the closed, empty channel: nil is discarded
MRDiscardNil ==
    /\ Running
    /\ ppc = "select"
    /\ Len(pubChan.buf) = 0
    /\ pubChan.closed
    /\ UNCHANGED vars

\* case <-doneChan: return nil
MRStop ==
    /\ Running
    /\ ppc = "select"
    /\ doneChan.closed
    /\ ppc' = "returned"
    /\ UNCHANGED <<cfgVars, mainVars, chanVars, frVars, tickerC, hist>>

\* the goroutine main starts: errChan <- messageRunner(...); wg.Done()
MRExit ==
    /\ Running
    /\ ppc = "returned"
    /\ Len(errChan.buf) < ErrCap
    /\ errChan' = ChanSend(errChan, "nil")
    /\ ppc' = "exited"
    /\ UNCHANGED <<cfgVars, mainVars, framesChan, doneChan, resultsChan, pubChan,
                   frVars, tickerC, hist>>

----------------------------------------------------------------------------
(* Specifications *)

\* the state when main enters its monitor loop, both goroutines started
Started ==
    /\ vpos = 0
    /\ mpc = "read"
    /\ img = ZeroRect
    /\ mresult = "main"
    /\ framesChan = MakeChan
    /\ doneChan = MakeChan
    /\ resultsChan = MakeChan
    /\ pubChan = MakeChan
    /\ errChan = MakeChan
    /\ fpc = "select"
    /\ part = NewPart
    /\ result = NewResult
    /\ ppc = IF publish THEN "select" ELSE "none"
    /\ tickerC = 0
    /\ hist = NewHist

MainShutdown ==
    \/ MainCloseFrames
    \/ MainCloseDone
    \/ MainDrain
    \/ MainDrained
    \/ MainWait

FrameRunnerNoPub ==
    \/ FRStop
    \/ FRRecvFrame
    \/ FRRecvNil
    \/ FRProcess
    \/ FRSendResults
    \/ FRExit

MessageRunner ==
    \/ Tick
    \/ MRTick
    \/ MRTickRecv
    \/ MRTickRecvNil
    \/ MRPublish
    \/ MRDiscard
    \/ MRDiscardNil
    \/ MRStop
    \/ MRExit

\* a camera, the default thresholds, no publishing
Init ==
    /\ min = DefaultMin
    /\ max = DefaultMax
    /\ publish = FALSE
    /\ film = <<>>
    /\ Started

Next ==
    \/ MainReadCamera
    \/ MainReadEmpty
    \/ MainReadFail
    \/ MainSend
    \/ MainSelect
    \/ MainShutdown
    \/ FrameRunnerNoPub

Spec == Init /\ [][Next]_vars

FrameRunnerPub ==
    \/ FrameRunnerNoPub
    \/ FRSendPub

\* a video file, the default thresholds, no publishing
InitVideo ==
    /\ min = DefaultMin
    /\ max = DefaultMax
    /\ publish = FALSE
    /\ film \in Films
    /\ Started

NextVideo ==
    \/ MainReadFile
    \/ MainReadFail
    \/ MainSend
    \/ MainSelect
    \/ MainShutdown
    \/ FrameRunnerNoPub

SpecVideo == InitVideo /\ [][NextVideo]_vars

\* a short video file of any length up to MaxPipeFrames, with and without publishing
InitPipe ==
    /\ min = DefaultMin
    /\ max = DefaultMax
    /\ publish \in BOOLEAN
    /\ film \in PipeFilms
    /\ Started

NextPipe ==
    \/ MainReadFile
    \/ MainReadFail
    \/ MainSend
    \/ MainSelect
    \/ MainShutdown
    \/ FrameRunnerPub
    \/ MessageRunner

SpecPipe == InitPipe /\ [][NextPipe]_vars

\* result.Rect = ...; part.now = detectStatus(&result.Rect), for any rectangle
ClassifyRect ==
    \E w \in ClassifyDims, h \in ClassifyDims :
        /\ result' = [result EXCEPT !.Rect = Rect(w, h)]
        /\ part' = [part EXCEPT !.now = detectStatus(Rect(w, h))]
        /\ UNCHANGED <<cfgVars, mainVars, chanVars, fpc, mrVars, hist>>

\* any pair of thresholds
InitClassify ==
    /\ min \in ClassifyAreas
    /\ max \in ClassifyAreas
    /\ publish = FALSE
    /\ film = <<>>
    /\ Started

SpecClassify == InitClassify /\ [][ClassifyRect]_vars

----------------------------------------------------------------------------
(* Claims *)

\* a step in which frameRunner processed a frame
FrameProcessed == hist'.nframes = hist.nframes + 1

\* C1: after every processed frame the counters of the Result satisfy
\* TotalDefects <= TotalParts
C1_DefectsAtMostParts == result.TotalDefects <= result.TotalParts

\* C2: within one maximal run of consecutive seen frames TotalDefects is
\* incremented at most once
C2_OneDefectPerRun == hist.runIncs <= 1

\* C3: TotalDefects is incremented on a frame only if that frame ends at least 11
\* consecutive defect frames of the run
C3_DefectAfterElevenConsecutive ==
    [][result'.TotalDefects > result.TotalDefects => hist'.consecDefect >= 11]_vars

\* C4: when every frame so far was seen and defect, TotalParts is 1 after frame 1,
\* TotalDefects is 0 after each of frames 1..11 and 1 after each of frames 12..17
C4_ScenarioAllDefect ==
    (hist.nframes >= 1 /\ hist.consecDefect = hist.nframes) =>
        /\ hist.nframes = 1 => result.TotalParts = 1
        /\ hist.nframes \in 1..11 => result.TotalDefects = 0
        /\ hist.nframes \in 12..17 => result.TotalDefects = 1

\* C5: after 12 defect frames, one not-seen frame and 12 more defect frames,
\* TotalParts = 2 and TotalDefects = 2
C5_ScenarioTwoDefective ==
    (film = FilmTwoDefective /\ hist.inOrder /\ hist.nframes = 25) =>
        result.TotalParts = 2 /\ result.TotalDefects = 2

\* C6: TotalParts is incremented exactly on a seen frame whose preceding processed
\* frame was not seen (or that is the first frame) and in no other step, so it
\* equals the number of maximal runs of seen frames started so far
C6_TotalPartsOncePerRun ==
    /\ [](result.TotalParts = hist.runs)
    /\ [][result'.TotalParts = result.TotalParts +
            (IF FrameProcessed /\ part'.now.Seen /\ hist.runLen = 0 THEN 1 ELSE 0)]_vars

C6_Witness ==
    /\ hist.runs = 2
    /\ result.TotalParts = 2
    /\ hist.runLen >= 2
    /\ hist.nframes >= 5

\* C7: a frame of a run of seen frames that holds no defect frame neither increments
\* TotalDefects nor changes Result.Defect; when all frames so far were seen and not
\* defect, TotalParts is 1 after frame 1 and TotalDefects is 0 after frame 15
C7_NoDefectFrameNoDefect ==
    /\ [][(FrameProcessed /\ part'.now.Seen /\ ~hist'.runHasDefect) =>
            /\ result'.TotalDefects = result.TotalDefects
            /\ result'.Defect = result.Defect]_vars
    /\ []((hist.runLen = hist.nframes /\ ~hist.runHasDefect) =>
            /\ hist.nframes = 1 => result.TotalParts = 1
            /\ hist.nframes = 15 => result.TotalDefects = 0 /\ ~result.Defect)

C7_Witness ==
    /\ hist.nframes = 15
    /\ hist.runLen = 15
    /\ ~hist.runHasDefect
    /\ result.TotalParts = 1
    /\ result.TotalDefects = 0

\* C8: processing a not-seen frame sets okFrames and defectFrames to 0 and leaves
\* TotalParts and TotalDefects unchanged; when the frame before it was not seen
\* either, it changes nothing of the Part and the Result
C8_EmptyBeltResets ==
    [][(FrameProcessed /\ ~part'.now.Seen) =>
          /\ part'.okFrames = 0
          /\ part'.defectFrames = 0
          /\ result'.TotalParts = result.TotalParts
          /\ result'.TotalDefects = result.TotalDefects
          /\ (hist.nframes > 0 /\ ~part.now.Seen) => (part' = part /\ result' = result)]_vars

C8_Witness ==
    /\ fpc = "sendResults"
    /\ hist.nframes >= 3
    /\ result.TotalParts >= 1
    /\ ~part.now.Seen
    /\ ~part.prev.Seen
    /\ part.okFrames = 0
    /\ part.defectFrames = 0

\* C9: detectStatus returns Seen = (width * height # 0) and
\* Defect = Seen and (area > max or area < min)
C9_DetectStatus ==
    LET area == result.Rect.X * result.Rect.Y
    IN  /\ part.now.Seen = (area # 0)
        /\ part.now.Defect = (part.now.Seen /\ (area > max \/ area < min))

C9_Witness ==
    /\ min < max
    /\ result.Rect.X * result.Rect.Y = max
    /\ part.now.Seen
    /\ ~part.now.Defect

\* the values buffered in channel ch are the last sends of the n made so far, in order
InSendOrder(ch, n) ==
    \A i \in 1..Len(ch.buf) : ch.buf[i] = n - Len(ch.buf) + i

\* C10: for each frame it processes frameRunner makes exactly one send on
\* resultsChan, and one on pubChan when publishing, before it receives the next
\* frame; the k-th Result sent is the one made from the first k frames
C10_OneResultPerFrame ==
    /\ fpc \in {"select", "copy", "returned", "exited"} =>
          /\ hist.sentRes = hist.nframes
          /\ hist.sentPub = IF publish THEN hist.nframes ELSE 0
    /\ fpc = "sendResults" =>
          /\ hist.sentRes = hist.nframes - 1
          /\ hist.sentPub = IF publish THEN hist.nframes - 1 ELSE 0
    /\ fpc = "sendPub" =>
          /\ publish
          /\ hist.sentRes = hist.nframes
          /\ hist.sentPub = hist.nframes - 1
    /\ InSendOrder(resultsChan, hist.sentRes)
    /\ InSendOrder(pubChan, hist.sentPub)

C10_Witness ==
    /\ publish
    /\ fpc = "copy"
    /\ hist.nframes = 3
    /\ hist.sentRes = 3
    /\ hist.sentPub = 3

\* main has left the capture loop and has not yet returned
ShutdownStarted == mpc \in {"closeFrames", "closeDone", "drain", "wait"}

\* C11: once the capture loop has been left the program runs on to the end of
\* main with both workers returned: until main is past wg.Wait() some goroutine
\* can always take a step, none of them is left blocked for ever (a process
\* that has crashed is not counted as blocked)
C11_ShutdownTerminates == (ShutdownStarted /\ ppc # "panic") => ENABLED NextPipe

\* frameRunner has left its loop
FRReturned == fpc \in {"returned", "exited"}

\* a step that sends on ch finds it open
SendsOnOpen(ch, chAfter) == Len(chAfter.buf) > Len(ch.buf) => ~ch.closed

\* C12: frameRunner closes resultsChan, and pubChan when it is not nil, once each
\* when it sees doneChan closed, and then returns; no channel is ever closed
\* twice and no value is ever sent on a closed channel
C12_CloseOnce ==
    /\ [](/\ framesChan.closes <= 1
          /\ doneChan.closes <= 1
          /\ resultsChan.closes <= 1
          /\ pubChan.closes <= 1
          /\ errChan.closes <= 1
          /\ FRReturned =>
                /\ doneChan.closed
                /\ resultsChan.closes = 1
                /\ pubChan.closes = IF publish THEN 1 ELSE 0
          /\ ~FRReturned =>
                /\ resultsChan.closes = 0
                /\ pubChan.closes = 0)
    /\ [][/\ SendsOnOpen(framesChan, framesChan')
          /\ SendsOnOpen(doneChan, doneChan')
          /\ SendsOnOpen(resultsChan, resultsChan')
          /\ SendsOnOpen(pubChan, pubChan')
          /\ SendsOnOpen(errChan, errChan')]_vars

C12_Witness ==
    /\ publish
    /\ fpc = "exited"
    /\ hist.sentPub > 0
    /\ resultsChan.closes = 1
    /\ pubChan.closes = 1

\* C13: once doneChan is closed messageRunner returns nil and publishes nothing
\* more: it does not crash, also when the stop comes while it waits in the tick
\* case for a Result from pubChan, and it makes no Publish call for a tick taken
\* after the close
C13_StopEndsPublisher ==
    /\ [](doneChan.closed => ppc # "panic")
    /\ [][(ppc = "publish" /\ ppc' # "publish") => ~hist.lateTick]_vars

\* the second half alone: no Publish call for a tick taken after the close
C13_NoPublishAfterStop == [][(ppc = "publish" /\ ppc' # "publish") => ~hist.lateTick]_vars

\* frameRunner waits at pubChan <- result: the buffer of pubChan is full
FRBlockedOnPub == fpc = "sendPub" /\ Len(pubChan.buf) >= PubCap

\* C14: publishing puts no backpressure on detection: frameRunner is never
\* waiting to send on a full pubChan while messageRunner is busy with a publish
\* attempt or has already returned
C14_NoBackpressure == ~(FRBlockedOnPub /\ ppc \in {"publish", "returned", "exited"})

\* messageRunner is not inside the tick case
MROutsideTick == ppc \in {"select", "returned", "exited", "panic"}

\* a step of the case <-pubChan of the select: a Result is received and dropped
DiscardStep == ppc = "select" /\ ppc' = "select" /\ Len(pubChan'.buf) < Len(pubChan.buf)

\* C15: every tick messageRunner takes causes exactly one Publish call, and a
\* Result received between ticks causes none
C15_OnePublishPerTick ==
    /\ [](/\ hist.tickPubs <= 1
          /\ (hist.ticked /\ MROutsideTick) => hist.tickPubs = 1)
    /\ [][DiscardStep => hist'.tickPubs = hist.tickPubs]_vars

\* a step of result := <-pubChan in the tick case that receives a Result
TickRecvStep == ppc = "tickRecv" /\ ppc' = "publish"

\* C16: the Result published at a tick is the last one frameRunner delivered on
\* pubChan before the tick, never one delivered after it: the Result the tick
\* case receives was sent before messageRunner took the tick
C16_PublishesLatestAtTick == [][TickRecvStep => ~hist.sentSinceTick]_vars

\* a step in which c.Publish returns an error
FailedPublishStep == ppc = "publish" /\ ppc' # "publish" /\ hist'.lastErr # "nil"

\* C17: a Publish call that fails does not stop the publisher: messageRunner goes
\* back to its select, from where the next tick is taken, without returning and
\* without a send on errChan, and the Result is not put back for a retry
C17_PublishErrorTolerated ==
    /\ [][FailedPublishStep =>
             /\ ppc' = "select"
             /\ errChan' = errChan
             /\ pubChan' = pubChan]_vars
    /\ []((ppc = "select" /\ tickerC = 1 /\ Running) => ENABLED MRTick)

\* after a failed Publish call a later tick has been taken and a new Result
\* received for the next attempt
C17_Witness ==
    /\ hist.lastErr = "error"
    /\ hist.tickPubs = 0
    /\ ppc = "publish"

\* main is at framesChan <- &frame{img: &img} and the buffer of framesChan is full
MainWaitsToSend == mpc = "send" /\ Len(framesChan.buf) >= FramesCap

\* C18 as stated: the capture loop never waits for detection, neither at its send
\* on framesChan nor at its select
C18_LoopNeverWaits ==
    Running => /\ mpc = "send" => ENABLED MainSend
               /\ mpc = "select" => MainSelectReady \ {"sig"} # {}

\* C18, amended: the select of the capture loop never waits, whether or not a
\* signal has arrived; the send on framesChan completes at once when framesChan
\* is empty, and when it has to wait, the frame sent before is still queued and
\* one of the workers can take a step
C18_LoopWaitsOnlyToSend ==
    Running => /\ mpc = "select" => MainSelectReady \ {"sig"} # {}
               /\ (mpc = "send" /\ Len(framesChan.buf) < FramesCap) => ENABLED MainSend
               /\ MainWaitsToSend =>
                     /\ framesChan.buf = <<"img">>
                     /\ ~FRReturned
                     /\ ENABLED (FrameRunnerPub \/ MRDiscard \/ MRTickRecv \/ MRPublish)

C18_Witness == MainWaitsToSend /\ fpc = "sendResults" /\ Running

\* the frame handed over last is still queued in framesChan, or frameRunner has
\* received it and has not yet copied the image it points to
FrameBufferInUse == Len(framesChan.buf) > 0 \/ fpc = "copy"

\* a step of vc.Read(&img) that stores the next capture in main's image buffer
MainReadStep == mpc = "read" /\ vpos' # vpos

\* C19: main does not read the next capture into the image buffer while a frame
\* pointing to it is queued in framesChan or is being copied by frameRunner
C19_NoWriteWhileFrameInUse == [][FrameBufferInUse => ~MainReadStep]_vars

\* the order of the statements of main after its loop
ShutdownOrder ==
    {<<"closeFrames", "closeDone">>, <<"closeDone", "drain">>, <<"drain", "wait">>,
     <<"wait", "exit">>}

\* C20: the shutdown has one order: main closes framesChan, after which no frame
\* is sent, then closes doneChan, then drains resultsChan until frameRunner has
\* closed it, then waits for the workers; it returns only when frameRunner, and
\* messageRunner when started, have exited
C20_ShutdownOrder ==
    /\ [](/\ framesChan.closed <=> mpc \in {"closeDone", "drain", "wait", "exit"}
          /\ doneChan.closed <=> mpc \in {"drain", "wait", "exit"}
          /\ mpc \in {"wait", "exit"} =>
                /\ resultsChan.closed
                /\ resultsChan.buf = <<>>
          /\ mpc = "exit" =>
                /\ fpc = "exited"
                /\ publish => ppc = "exited")
    /\ [][(ShutdownStarted /\ mpc' # mpc) => <<mpc, mpc'>> \in ShutdownOrder]_vars

C20_Witness ==
    /\ mpc = "exit"
    /\ publish
    /\ hist.sentPub > 0
    /\ fpc = "exited"
    /\ ppc = "exited"

\* frames main has sent on framesChan (one per image read, sent at "send")
FramesSent == IF mpc = "send" THEN vpos - 1 ELSE vpos

\* frames frameRunner has received from framesChan
FramesTaken == hist.nframes + (IF fpc = "copy" THEN 1 ELSE 0)

\* frames frameRunner is through with: processed, Result sent, prev advanced
FramesDone == hist.nframes - (IF fpc \in {"sendResults", "sendPub"} THEN 1 ELSE 0)

\* C21 as stated: at most one frame is in flight between the capture loop and
\* frameRunner: a frame is handed over only when frameRunner is through with
\* the one before
C21_OneFrameInFlight == FramesSent - FramesDone <= 1

\* C21, amended: at most one frame is queued in framesChan: a frame is handed
\* over only when frameRunner has received the one before, so that besides the
\* queued frame there is at most the one frameRunner is working on
C21_OneFrameQueued ==
    /\ Len(framesChan.buf) <= FramesCap
    /\ FramesSent - FramesTaken = Len(framesChan.buf)
    /\ FramesTaken - FramesDone <= 1
    /\ FramesSent - FramesDone <= FramesCap + 1

\* a frame queued while frameRunner is still working on the one before
C21_Witness ==
    /\ Len(framesChan.buf) = FramesCap
    /\ fpc \in {"copy", "sendResults", "sendPub"}
    /\ FramesSent - FramesDone = 2

\* C22: a Result the display loop has received is a snapshot: its Defect, Rect,
\* TotalParts and TotalDefects do not change afterwards, whatever frameRunner
\* processes later
C22_ReceivedResultImmutable == [][mresult = "shared" => result' = result]_vars

\* a step in which frameRunner runs the frame case from the copy of the image to
\* the counters: part.prev is the status of the frame processed before,
\* part'.now the status of this one
ProcessStep == fpc = "copy" /\ fpc' = "sendResults"

\* C23: on a seen frame exactly one of defectFrames and okFrames is incremented,
\* by 1 and before any reset (defectFrames on a defect frame, okFrames
\* otherwise: the incremented counter ends one higher, the other as it was or
\* reset to 0); on a frame that is not seen neither is incremented
C23_OneCounterPerFrame ==
    [][ProcessStep =>
          IF part'.now.Seen
          THEN IF part'.now.Defect
               THEN /\ part'.defectFrames = part.defectFrames + 1
                    /\ part'.okFrames \in {part.okFrames, 0}
               ELSE /\ part'.okFrames = part.okFrames + 1
                    /\ part'.defectFrames \in {part.defectFrames, 0}
          ELSE /\ part'.okFrames = 0
               /\ part'.defectFrames = 0]_vars

\* a defect frame was counted after ok frames, which stay counted
C23_Witness ==
    /\ fpc = "sendResults"
    /\ part.now.Seen
    /\ part.now.Defect
    /\ part.defectFrames = 2
    /\ part.okFrames = 3

\* C24: on a frame that continues a part (the frame before was seen): a frame
\* without defect that brings okFrames above 10 resets defectFrames to 0 and
\* leaves okFrames as incremented; a defect frame that brings defectFrames above
\* 10 resets okFrames to 0, whether or not TotalDefects is incremented; no
\* other continuing frame resets a counter
C24_ContinuingPartResets ==
    [][(ProcessStep /\ part.prev.Seen /\ part'.now.Seen) =>
          IF part'.now.Defect
          THEN /\ part'.defectFrames = part.defectFrames + 1
               /\ part'.okFrames = IF part.defectFrames + 1 > 10 THEN 0 ELSE part.okFrames
          ELSE /\ part'.okFrames = part.okFrames + 1
               /\ part'.defectFrames = IF part.okFrames + 1 > 10 THEN 0
                                       ELSE part.defectFrames]_vars

\* the eleventh ok frame in a row of a part has just cleared its defect frames
C24_Witness ==
    /\ fpc = "sendResults"
    /\ hist.runLen > 11
    /\ hist.runHasDefect
    /\ ~part.now.Defect
    /\ part.okFrames = 11
    /\ part.defectFrames = 0

\* C25: a publish attempt that is not finished within TIMEOUT counts as failed:
\* Publish returns an error for it, as it does for an error of the broker
C25_TimeoutIsAnError ==
    hist.lastPublish \in {"timeout", "error"} => hist.lastErr # "nil"

\* the condition under which the frame case counts a defect, in terms of the
\* frame processed before (part.prev) and this one (part'.now)
DefectCounted ==
    /\ part'.now.Seen
    /\ part'.now.Defect
    /\ part.prev.Seen
    /\ ~part.prev.Defect
    /\ part.defectFrames + 1 > 10

C27_DefectFlagSticks == [][result.Defect => result'.Defect]_vars

\* the flag still set on the Result for an empty belt, and on the Result for the
\* first, good frame of a part
C27_WitnessEmptyBelt ==
    /\ fpc = "sendResults"
    /\ result.Defect
    /\ ~part.now.Seen

C27_Witness ==
    /\ fpc = "sendResults"
    /\ result.Defect
    /\ part.now.Seen
    /\ ~part.now.Defect
    /\ ~part.prev.Seen

\* frameRunner waits at resultsChan <- result: the buffer of resultsChan is full
FRBlockedOnResults == fpc = "sendResults" /\ Len(resultsChan.buf) >= ResultsCap

\* a step of the capture loop of a camera
MainLoop == MainReadCamera \/ MainReadEmpty \/ MainReadFail \/ MainSend \/ MainSelect

\* C28: without publishing and before the shutdown the capture loop and
\* frameRunner never block each other: main is never waiting to send on a full
\* framesChan while frameRunner is waiting to send on a full resultsChan, and
\* whenever one of the two waits the other can take a step
C28_NoDeadlockInLoop ==
    (~publish /\ ~ShutdownStarted /\ Running) =>
        /\ ~(MainWaitsToSend /\ FRBlockedOnResults)
        /\ MainWaitsToSend => ENABLED FrameRunnerNoPub
        /\ FRBlockedOnResults => ENABLED MainLoop

\* both channels full, frameRunner waiting, main about to take the Result
C28_Witness ==
    /\ ~publish
    /\ FRBlockedOnResults
    /\ Len(framesChan.buf) = FramesCap
    /\ mpc = "select"

\* C29: messageRunner never calls ToMQTTMessage on a nil Result: what the tick
\* case receives from pubChan is never the nil of the closed channel, also not
\* during the shutdown
C29_NoNilResult == ppc # "panic"

\* the step in which frameRunner receives its first nil frame
NilFrameStep == ~hist.gotNil /\ hist'.gotNil

\* C30: a nil frame, which is what frameRunner receives from framesChan once
\* main has closed it, puts no Result on resultsChan or pubChan and leaves the
\* counters, the totals and the previous status as they are: frameRunner is
\* back at its select
C30_NilFrameIgnored ==
    /\ [][NilFrameStep =>
             /\ fpc' = "select"
             /\ part' = part
             /\ result' = result
             /\ resultsChan' = resultsChan
             /\ pubChan' = pubChan]_vars
    /\ [](/\ hist.gotNil => framesChan.closed
          /\ fpc \in {"select", "returned", "exited"} =>
                /\ hist.sentRes = hist.nframes
                /\ hist.sentPub = IF publish THEN hist.nframes ELSE 0)

\* nil frames received after frames were processed, the stop not yet seen
C30_Witness ==
    /\ hist.gotNil
    /\ hist.nframes > 0
    /\ fpc = "select"
    /\ publish
    /\ ~doneChan.closed

\* values sent on errChan so far: one by each worker goroutine whose runner has
\* returned and which has got past its send
ErrSends == (IF fpc = "exited" THEN 1 ELSE 0) + (IF ppc = "exited" THEN 1 ELSE 0)

\* C31: the send on errChan a worker goroutine makes when its runner has
\* returned never waits: at most two values are ever sent on the channel of
\* capacity 2, none is taken out after the loop, so there is room whenever a
\* runner has returned and the goroutine goes on to wg.Done()
C31_ErrChanNeverBlocks ==
    /\ ErrSends <= ErrCap
    /\ Len(errChan.buf) = ErrSends
    /\ fpc = "returned" =>
          /\ Len(errChan.buf) < ErrCap
          /\ Running => ENABLED FRExit
    /\ ppc = "returned" =>
          /\ Len(errChan.buf) < ErrCap
          /\ Running => ENABLED MRExit

\* both workers have sent, main is still draining resultsChan
C31_Witness ==
    /\ publish
    /\ mpc = "drain"
    /\ fpc = "exited"
    /\ ppc = "exited"
    /\ Len(errChan.buf) = 2

====
